---- MODULE Spec2Model ----
(***************************************************************************)
(* A model of the SHL assessment recommender: the index build              *)
(* (src/src/indexer.py), the retriever (src/src/retriever.py) and the      *)
(* /recommend endpoint with its query utilities (src/src/api_fastapi.py).  *)
(*                                                                         *)
(* Texts are TLA+ strings and are processed character by character, the    *)
(* way the regular expressions and str methods of the code process them.   *)
(* Numbers that the code holds as floats are held exactly, as scaled       *)
(* integers: a similarity in hundredths, a duration in half minutes, a     *)
(* duration score as a numerator over the request's denominator.           *)
(***************************************************************************)
EXTENDS Integers, Sequences, FiniteSets, TLC

VARIABLES
    phase,      \* "boot" | "idle" | "done" | "input" | "output"
    bundle,     \* api_fastapi.bundle: None or the loaded IndexBundle
    req,        \* the input of the operation in progress
    resp,       \* what the last operation computed and returned
    disk,       \* the index directory: the content of each bundle file
    build,      \* the run of indexer.main in progress, and where it stands
    load,       \* the call of load_index in progress, and what it has read
    calls       \* the requests being served at once, one per worker thread

vars == <<phase, bundle, req, resp, disk, build, load, calls>>

\* Python's None, where a bundle is expected
None == [loaded |-> FALSE]
\* Python's None, where a (lo, hi) tuple is expected
NoWindow == <<>>
\* Python's None, where a regex match is expected (the groups otherwise)
NoMatch == [g1 |-> ""]

\* The three files of a bundle, in the order indexer.main writes them and
\* load_index reads them
FILES == <<"faiss.index", "vectors.npy", "meta.parquet">>
\* A file that does not exist. A file that exists holds its rows and, for the
\* index, the dimension d of its vectors; run (the run of indexer.main that
\* wrote the file) and by (the model that computed its vectors) are stored
\* nowhere in the file: they are recorded here to state what a file is made of.
Absent == [run |-> 0, by |-> "", d |-> 0, rows |-> <<>>]
EmptyDir == [f \in {FILES[i] : i \in 1..Len(FILES)} |-> Absent]
\* no run of the indexer, no call of load_index, no request in progress
NoBuild == [pc |-> "idle", run |-> 0, catalog |-> <<>>, model_name |-> ""]
NoLoad == [pc |-> "idle", model_name |-> "", index |-> Absent,
           vectors |-> Absent, meta |-> Absent]
NoCalls == <<>>

(***************************************************************************)
(* Characters and strings                                                  *)
(***************************************************************************)

\* s[p] as a one-character string, "" when p is outside s
Ch(s, p) == IF p >= 1 /\ p <= Len(s) THEN SubSeq(s, p, p) ELSE ""

DIGITS == "0123456789"
UPPER == "ABCDEFGHIJKLMNOPQRSTUVWXYZ"
LOWER == "abcdefghijklmnopqrstuvwxyz"

Chars(alphabet) == {Ch(alphabet, i) : i \in 1..Len(alphabet)}

\* the value of a decimal digit
DigitValue == [c \in Chars(DIGITS) |->
                  (CHOOSE i \in 1..Len(DIGITS) : Ch(DIGITS, i) = c) - 1]
\* the lower-case letter of an upper-case letter
LowerOf == [c \in Chars(UPPER) |->
               Ch(LOWER, CHOOSE i \in 1..Len(UPPER) : Ch(UPPER, i) = c)]

\* regex \d
IsDigit(c) == c \in DOMAIN DigitValue
\* regex [a-zA-Z]
IsAlpha(c) == c \in DOMAIN LowerOf \/ c \in Chars(LOWER)
\* regex \s
IsSpace(c) == c \in {" ", "\t", "\n"}
\* regex \w
IsWord(c) == IsDigit(c) \/ IsAlpha(c) \/ c = "_"

\* str.lower()
RECURSIVE lower(_)
lower(s) ==
    IF s = "" THEN ""
    ELSE LET c == Ch(s, 1)
         IN  (IF c \in DOMAIN LowerOf THEN LowerOf[c] ELSE c)
                 \o lower(SubSeq(s, 2, Len(s)))

\* strip that strips nothing
strip_nothing(s) == s

\* str.strip()
RECURSIVE strip(_)
strip(s) ==
    IF s = "" THEN ""
    ELSE IF IsSpace(Ch(s, 1)) THEN strip(SubSeq(s, 2, Len(s)))
    ELSE IF IsSpace(Ch(s, Len(s))) THEN strip(SubSeq(s, 1, Len(s) - 1))
    ELSE s

\* int() of a string of digits
RECURSIVE int(_)
int(s) ==
    IF s = "" THEN 0
    ELSE int(SubSeq(s, 1, Len(s) - 1)) * 10 + DigitValue[Ch(s, Len(s))]

\* Python's  k in s  on strings
StrIn(k, s) ==
    \E i \in 1..(Len(s) - Len(k) + 1) : SubSeq(s, i, i + Len(k) - 1) = k

min(a, b) == IF a <= b THEN a ELSE b
max(a, b) == IF a >= b THEN a ELSE b
abs(a) == IF a >= 0 THEN a ELSE 0 - a

(***************************************************************************)
(* extract_duration_window                                                 *)
(***************************************************************************)

\* the unit alternation of both patterns, in the order the regex tries it
UNIT_ALTERNATIVES == <<"hour", "hr", "hours", "hrs", "minute", "min", "minutes">>

\* the first position >= p of t that holds no digit (regex \d*, greedy)
RECURSIVE SkipDigits(_, _)
SkipDigits(t, p) == IF IsDigit(Ch(t, p)) THEN SkipDigits(t, p + 1) ELSE p

\* the first position >= p of t that holds no whitespace (regex \s*, greedy)
RECURSIVE SkipSpaces(_, _)
SkipSpaces(t, p) == IF IsSpace(Ch(t, p)) THEN SkipSpaces(t, p + 1) ELSE p

\* (hour|hr|hours|hrs|minute|min|minutes)\b at position p: the first
\* alternative that t holds at p and that a word boundary follows, or ""
UnitAt(t, p) ==
    LET fits(k) == LET u == UNIT_ALTERNATIVES[k]
                   IN  /\ SubSeq(t, p, min(Len(t), p + Len(u) - 1)) = u
                       /\ ~IsWord(Ch(t, p + Len(u)))
    IN  IF \E k \in 1..Len(UNIT_ALTERNATIVES) : fits(k)
        THEN UNIT_ALTERNATIVES[CHOOSE k \in 1..Len(UNIT_ALTERNATIVES) :
                                  fits(k) /\ \A j \in 1..(k - 1) : ~fits(j)]
        ELSE ""

\* (\d+)\s*-\s*(\d+)\s*(unit)\b matched at position i of t
RangeAt(t, i) ==
    LET e1 == SkipDigits(t, i)
        p1 == SkipSpaces(t, e1)
        p2 == SkipSpaces(t, p1 + 1)
        e2 == SkipDigits(t, p2)
        p3 == SkipSpaces(t, e2)
    IN  IF e1 > i /\ Ch(t, p1) = "-" /\ e2 > p2 /\ UnitAt(t, p3) # ""
        THEN [g1 |-> SubSeq(t, i, e1 - 1), g2 |-> SubSeq(t, p2, e2 - 1),
              g3 |-> UnitAt(t, p3)]
        ELSE NoMatch

\* (\d+)\s*(unit)\b matched at position i of t
SingleAt(t, i) ==
    LET e1 == SkipDigits(t, i)
        p1 == SkipSpaces(t, e1)
    IN  IF e1 > i /\ UnitAt(t, p1) # ""
        THEN [g1 |-> SubSeq(t, i, e1 - 1), g2 |-> UnitAt(t, p1)]
        ELSE NoMatch

\* re.search of the range pattern: the match at the leftmost position that
\* has one, or None
RangeSearch(t) ==
    IF \E i \in 1..Len(t) : RangeAt(t, i) # NoMatch
    THEN RangeAt(t, CHOOSE i \in 1..Len(t) :
             RangeAt(t, i) # NoMatch /\ \A j \in 1..(i - 1) : RangeAt(t, j) = NoMatch)
    ELSE NoMatch

\* re.search of the single-value pattern
SingleSearch(t) ==
    IF \E i \in 1..Len(t) : SingleAt(t, i) # NoMatch
    THEN SingleAt(t, CHOOSE i \in 1..Len(t) :
             SingleAt(t, i) # NoMatch /\ \A j \in 1..(i - 1) : SingleAt(t, j) = NoMatch)
    ELSE NoMatch

\* "hour" in unit
HasHour(unit) == StrIn("hour", unit)

\* extract_duration_window trying the single-value pattern before the range
extract_single_first(text) ==
    LET t == lower(text)
        m == RangeSearch(t)
        n == SingleSearch(t)
    IN  IF n # NoMatch
        THEN LET v == IF HasHour(n.g2) THEN int(n.g1) * 60 ELSE int(n.g1)
             IN  <<max(0, v - 15), v + 15>>
        ELSE IF m # NoMatch
        THEN LET a == IF HasHour(m.g3) THEN int(m.g1) * 60 ELSE int(m.g1)
                 b == IF HasHour(m.g3) THEN int(m.g2) * 60 ELSE int(m.g2)
             IN  <<min(a, b), max(a, b)>>
        ELSE NoWindow

extract_duration_window(text) ==
    LET t == lower(text)
        m == RangeSearch(t)
        n == SingleSearch(t)
    IN  IF m # NoMatch
        THEN LET a == IF HasHour(m.g3) THEN int(m.g1) * 60 ELSE int(m.g1)
                 b == IF HasHour(m.g3) THEN int(m.g2) * 60 ELSE int(m.g2)
             IN  <<min(a, b), max(a, b)>>
        ELSE IF n # NoMatch
        THEN LET v == IF HasHour(n.g2) THEN int(n.g1) * 60 ELSE int(n.g1)
             IN  <<max(0, v - 15), v + 15>>
        ELSE NoWindow

(***************************************************************************)
(* The queries put to extract_duration_window: a lead, a duration          *)
(* expression built from its parts, and a tail.                            *)
(***************************************************************************)

MaxCount == 2

Counts == (0..MaxCount) \cup {14, 45, 60}
UnitWords == {"hour", "hours", "hr", "hrs", "minute", "minutes", "min",
              "Hours", "MIN", "mins", "h"}
Leads == {"", "about ", "python test ", "after 5 min, "}
Tails == {"", " or so", ", then 5 min"}
Gaps == {"", " "}

RangeText(a, g, b, u) ==
    ToString(a) \o g \o "-" \o g \o ToString(b) \o " " \o u
SingleText(n, g, u) == ToString(n) \o g \o u

ExtractInputs ==
    {[kind |-> "range", a |-> a, b |-> b, unit |-> u, lead |-> l, tail |-> t,
      query |-> l \o RangeText(a, g, b, u) \o t] :
        a \in Counts, b \in Counts, u \in UnitWords, l \in Leads, t \in Tails,
        g \in Gaps}
    \cup
    {[kind |-> "single", a |-> n, b |-> n, unit |-> u, lead |-> l, tail |-> t,
      query |-> l \o SingleText(n, g, u) \o t] :
        n \in Counts, u \in UnitWords, l \in Leads, t \in Tails, g \in Gaps}
    \cup
    {[kind |-> "none", a |-> 0, b |-> 0, unit |-> "", lead |-> "", tail |-> "",
      query |-> q] :
        q \in {"no time mentioned here", "3 people, 2-4 years"}}

NoResp == [op |-> "none"]

InitExtract ==
    /\ phase = "input"
    /\ bundle = None
    /\ req \in ExtractInputs
    /\ resp = NoResp
    /\ disk = EmptyDir /\ build = NoBuild /\ load = NoLoad /\ calls = NoCalls

Extract ==
    /\ phase = "input"
    /\ phase' = "output"
    /\ resp' = [op |-> "extract", win |-> extract_duration_window(req.query)]
    /\ UNCHANGED <<bundle, req, disk, build, load, calls>>

NextExtract == Extract

SpecExtract == InitExtract /\ [][NextExtract]_vars

(***************************************************************************)
(* C3, C4: the windows of range and single-value expressions               *)
(***************************************************************************)

HourFamily == {"hour", "hours", "hr", "hrs"}
MinuteFamily == {"minute", "minutes", "min"}

\* n of the given unit, in minutes, as the specification converts it
InMinutes(n, unit) == IF lower(unit) \in HourFamily THEN n * 60 ELSE n

IsUnit(unit) == lower(unit) \in HourFamily \cup MinuteFamily

\* C3: a query holding the range expression 'a-b unit', unit any of hour,
\* hours, hr, hrs, minute, minutes, min, yields (min(a',b'), max(a',b')), a'
\* and b' being the bounds in minutes: times 60 for every hour-family unit.
C3_RangeWindowInMinutes ==
    (resp.op = "extract" /\ req.kind = "range" /\ IsUnit(req.unit)) =>
        resp.win = <<min(InMinutes(req.a, req.unit), InMinutes(req.b, req.unit)),
                     max(InMinutes(req.a, req.unit), InMinutes(req.b, req.unit))>>

\* C4: a query holding no range expression but the single-value expression
\* 'n unit' yields (max(0, v-15), v+15), v being n in minutes: n*60 for every
\* hour-family unit (hour, hours, hr, hrs), n for the minute family.
C4_SingleWindowAroundValue ==
    (resp.op = "extract" /\ req.kind = "single" /\ IsUnit(req.unit)
        /\ req.lead # "after 5 min, ") =>
        resp.win = <<max(0, InMinutes(req.a, req.unit) - 15),
                     InMinutes(req.a, req.unit) + 15>>

(***************************************************************************)
(* C14: the priority of the two duration patterns                          *)
(***************************************************************************)

\* the factors a count of the unit may be multiplied by to give minutes
Factors(unit) == IF lower(unit) \in HourFamily THEN {1, 60} ELSE {1}

\* the windows spanning the two bounds of a range
RangeWindows(a, b, unit) ==
    {<<min(a, b) * f, max(a, b) * f>> : f \in Factors(unit)}

\* the windows of 15 minutes either side of a single value
SingleWindows(n, unit) ==
    {<<max(0, n * f - 15), n * f + 15>> : f \in Factors(unit)}

\* the lead and the tail that hold a single-value expression of their own
HoldsOtherSingle(r) == r.lead = "after 5 min, " \/ r.tail = ", then 5 min"

\* C14: duration extraction has a fixed priority. A query that holds a range
\* expression with a unit yields the window spanning the range's two bounds,
\* also when a single-value expression stands earlier or later in the text;
\* the single-value window, around the leftmost value, is returned only when
\* no range matches; a text with neither yields None, never (0, 0); units are
\* matched whatever their case.
C14_RangeBeforeSingle ==
    resp.op = "extract" =>
        /\ (req.kind = "range" /\ IsUnit(req.unit)) =>
               resp.win \in RangeWindows(req.a, req.b, req.unit)
        /\ (req.kind = "single" /\ IsUnit(req.unit)) =>
               resp.win \in (IF req.lead = "after 5 min, "
                             THEN SingleWindows(5, "min")
                             ELSE SingleWindows(req.a, req.unit))
        /\ (req.kind # "none" /\ ~IsUnit(req.unit) /\ HoldsOtherSingle(req)) =>
               resp.win \in SingleWindows(5, "min")
        /\ (req.kind = "none" \/ (~IsUnit(req.unit) /\ ~HoldsOtherSingle(req))) =>
               resp.win = NoWindow /\ resp.win # <<0, 0>>

\* a range in upper-case hours after an earlier single-value expression
C14_Witness ==
    /\ resp.op = "extract"
    /\ req.kind = "range" /\ req.lead = "after 5 min, " /\ req.unit = "Hours"
    /\ req.a = 1 /\ req.b = 2
    /\ resp.win = <<60, 120>>

(***************************************************************************)
(* The catalog and the embedding model                                     *)
(*                                                                         *)
(* A row of meta.parquet holds the columns the endpoint reads; test_type,  *)
(* level and language are copied through like url and are left out.        *)
(* duration_min is a float (held in half minutes), NaN, or a string.       *)
(***************************************************************************)

Float(half) == [kind |-> "float", half |-> half, text |-> ""]
NaN == [kind |-> "nan", half |-> 0, text |-> ""]
Str(text) == [kind |-> "str", half |-> 0, text |-> text]

RecA == [assessment_id |-> "A", title |-> "Python Coding", url |-> "/a",
         description |-> "hands-on programming tasks", category |-> "Knowledge",
         tags |-> "coding", duration_min |-> Float(120)]
RecB == [assessment_id |-> "B", title |-> "Verbal Reasoning", url |-> "/b",
         description |-> "reading comprehension", category |-> "Sales Hiring",
         tags |-> "verbal", duration_min |-> Float(40)]
RecC == [assessment_id |-> "C", title |-> "Scripting Basics", url |-> "/c",
         description |-> "uses PYTHON and shell", category |-> "Knowledge",
         tags |-> "", duration_min |-> Float(116)]
RecD == [assessment_id |-> "D", title |-> "Account Aptitude", url |-> "/d",
         description |-> "", category |-> "Personality",
         tags |-> "b2b;sales", duration_min |-> NaN]

RecordPool == {RecA, RecB, RecC, RecD}

MaxCatalog == 3

\* the catalogs an index is built from: one row per url, at least one row
Catalogs ==
    {c \in UNION {[1..n -> RecordPool] : n \in 1..MaxCatalog} :
        \A i, j \in 1..Len(c) : i # j => c[i].url # c[j].url}

\* The sentence-transformer is opaque: each of these is one way it may score
\* a query against the stored vector of a record (inner product of unit
\* vectors, in hundredths).
Models == {"e1", "e2", "e3"}

InnerProduct(model, query, vec) ==
    CASE model = "e1" -> [A |-> 90, B |-> 95, C |-> 70, D |-> 80][vec]
      [] model = "e2" -> [A |-> 80, B |-> 80, C |-> 60, D |-> 60][vec]
      [] model = "e3" -> IF StrIn("sales", lower(query))
                         THEN [A |-> 10, B |-> 60, C |-> 0 - 20, D |-> 60][vec]
                         ELSE [A |-> 70, B |-> 0 - 20, C |-> 90, D |-> 90][vec]

\* faiss reports a slot it cannot fill as label -1 with the lowest float as
\* its score; every genuine score lies in -100..100
NO_LABEL == 0 - 1
LOWEST_SCORE == 0 - 1000

(***************************************************************************)
(* retriever.py                                                            *)
(***************************************************************************)

\* load_index of a directory holding the bundle built from catalog with model
load_index(catalog, model) ==
    [loaded |-> TRUE,
     index |-> [i \in 1..Len(catalog) |-> catalog[i].assessment_id],
     vectors |-> [i \in 1..Len(catalog) |-> catalog[i].assessment_id],
     meta |-> catalog,
     model |-> model]

\* the arrangements of a sequence, one for each distinct result
RECURSIVE Arrangements(_)
Arrangements(items) ==
    IF \A i \in 1..Len(items) : items[i] = items[1] THEN {items}
    ELSE LET firsts == {i \in 1..Len(items) :
                           \A j \in 1..(i - 1) : items[j] # items[i]}
             without(i) == SubSeq(items, 1, i - 1) \o SubSeq(items, i + 1, Len(items))
         IN  UNION {{<<items[i]>> \o rest : rest \in Arrangements(without(i))} :
                        i \in firsts}

\* the descending orders of a sequence of [key, val]: every order a sort that
\* promises nothing about equal keys may produce
RECURSIVE DescendingOrders(_)
DescendingOrders(items) ==
    IF items = <<>> THEN {<<>>}
    ELSE LET best == CHOOSE k \in {items[i].key : i \in 1..Len(items)} :
                         \A i \in 1..Len(items) : items[i].key <= k
             isBest(x) == x.key = best
             notBest(x) == x.key # best
         IN  {first \o rest : first \in Arrangements(SelectSeq(items, isBest)),
                              rest \in DescendingOrders(SelectSeq(items, notBest))}

\* index.search(q, topk) of IndexFlatIP: the labels (0-based) and scores of
\* the topk best vectors, best first, unfilled slots after them
IndexSearch(b, query, topk) ==
    LET n == Len(b.index)
        scored == [i \in 1..n |->
                      [key |-> InnerProduct(b.model, query, b.index[i]), val |-> i - 1]]
        slot(order, k) == IF k <= n THEN order[k]
                          ELSE [key |-> LOWEST_SCORE, val |-> NO_LABEL]
    IN  {[k \in 1..topk |-> slot(order, k)] : order \in DescendingOrders(scored)}

\* DataFrame.iloc[i] for one integer: a negative i counts from the end
iloc(meta, i) == IF i < 0 THEN meta[Len(meta) + i + 1] ELSE meta[i + 1]

WithSimilarity(row, d) ==
    [assessment_id |-> row.assessment_id, title |-> row.title, url |-> row.url,
     description |-> row.description, category |-> row.category,
     tags |-> row.tags, duration_min |-> row.duration_min, similarity |-> d]

\* search: the frames it may return (one per order of equal scores)
search(b, query, topk) ==
    {[k \in 1..topk |-> WithSimilarity(iloc(b.meta, hits[k].val), hits[k].key)] :
        hits \in IndexSearch(b, query, topk)}

(***************************************************************************)
(* api_fastapi.py                                                          *)
(***************************************************************************)

MODEL_NAME == "sentence-transformers/all-mpnet-base-v2"

WHITELIST ==
    {"python", "sql", "excel", "powerbi", "tableau", "r", "statistics",
     "statistical", "developer", "engineer", "analyst", "data", "qa", "testing",
     "automation", "communication", "stakeholder", "manager", "sales",
     "marketing", "java", "javascript"}

RECURSIVE SkipAlpha(_, _)
SkipAlpha(s, p) == IF IsAlpha(Ch(s, p)) THEN SkipAlpha(s, p + 1) ELSE p

\* re.findall(r"[a-zA-Z]+", s), from position p on
RECURSIVE FindAllAlpha(_, _)
FindAllAlpha(s, p) ==
    IF p > Len(s) THEN <<>>
    ELSE IF ~IsAlpha(Ch(s, p)) THEN FindAllAlpha(s, p + 1)
    ELSE <<SubSeq(s, p, SkipAlpha(s, p) - 1)>> \o FindAllAlpha(s, SkipAlpha(s, p))

strong_terms_from_query(q) ==
    LET found == FindAllAlpha(q, 1)
        words == [i \in 1..Len(found) |-> lower(found[i])]
        keep(w) == w \in WHITELIST
    IN  SelectSeq(words, keep)

\* the text the gate searches: " ".join of the four columns, lower-cased
GateText(row) ==
    lower(row.title \o " " \o row.description \o " " \o row.tags \o " "
          \o row.category)

on_topic(row, strong) == \E i \in 1..Len(strong) : StrIn(strong[i], GateText(row))

\* KeywordGate without its  if strong:  test
KeywordGateAlways(df, strong) ==
    LET keep(row) == on_topic(row, strong)
    IN  SelectSeq(df, keep)

\* KeywordGate that filters nothing
KeywordGateOff(df, strong) == df

\* the keyword relevance gate: df[df.apply(on_topic, axis=1)] if strong
KeywordGate(df, strong) ==
    LET keep(row) == on_topic(row, strong)
    IN  IF strong # <<>> THEN SelectSeq(df, keep) ELSE df

\* twice max(15.0, (hi - lo) / 2.0): the denominator of the request's duration
\* scores (1 when the query names no duration and every score is 0.0)
ScoreDen(win) == IF win = NoWindow THEN 1 ELSE max(30, win[2] - win[1])

\* float(d) of a duration held as a string, in half minutes; -1: it raises
FloatOfStr(text) ==
    IF text # "" /\ \A i \in 1..Len(text) : IsDigit(Ch(text, i))
    THEN 2 * int(text) ELSE 0 - 1

\* dur_score without the clamp at 0.0
dur_score_unclamped(row, win) ==
    LET d == row.duration_min
        half == IF d.kind = "str" THEN FloatOfStr(d.text) ELSE d.half
    IN  IF win = NoWindow THEN 0
        ELSE IF d.kind = "nan" THEN 0
        ELSE IF half < 0 THEN 0
        ELSE ScoreDen(win) - abs(half - (win[1] + win[2]))

\* dur_score, as a numerator over ScoreDen(win):
\* max(0.0, 1.0 - abs(d - center) / max(15.0, (hi - lo) / 2.0))
dur_score(row, win) ==
    LET d == row.duration_min
        half == IF d.kind = "str" THEN FloatOfStr(d.text) ELSE d.half
    IN  IF win = NoWindow THEN 0
        ELSE IF d.kind = "nan" THEN 0
        ELSE IF half < 0 THEN 0
        ELSE max(0, ScoreDen(win) - abs(half - (win[1] + win[2])))

\* 0.85 * similarity + 0.15 * _dur_score, times 10000 * ScoreDen(win)
FinalScore(similarity, score, win) ==
    85 * similarity * ScoreDen(win) + 15 * 100 * score

Scored(row, win) ==
    [row |-> row, dur_score |-> dur_score(row, win),
     final |-> FinalScore(row.similarity, dur_score(row, win), win)]

\* sort_values without ascending=False
sort_values_ascending(df) ==
    LET items == [i \in 1..Len(df) |-> [key |-> 0 - df[i].final, val |-> df[i]]]
    IN  {[i \in 1..Len(df) |-> order[i].val] : order \in DescendingOrders(items)}

\* df.sort_values("_final", ascending=False): the orders it may produce
\* (the default sort promises nothing about rows of equal _final)
sort_values(df) ==
    LET items == [i \in 1..Len(df) |-> [key |-> df[i].final, val |-> df[i]]]
    IN  {[i \in 1..Len(df) |-> order[i].val] : order \in DescendingOrders(items)}

\* head that fills a short frame up to n rows with its last row
head_padded(df, n) ==
    IF df = <<>> THEN <<>> ELSE [i \in 1..n |-> df[min(i, Len(df))]]

\* df.head(n)
head(df, n) == SubSeq(df, 1, min(n, Len(df)))

\* topk = max(1, min(10, int(inp.topk or 10)))
ClampTopk(topk) == max(1, min(10, IF topk = 0 THEN 10 ELSE topk))

Rec(r) ==
    [assessment_name |-> r.row.title, assessment_url |-> r.row.url,
     duration_min |-> r.row.duration_min, similarity |-> r.row.similarity,
     description |-> r.row.description]

HTTPException(status_code, detail) ==
    [op |-> "recommend", status |-> status_code, detail |-> detail,
     searched |-> FALSE]

\* recommend: the responses it may give. Beside the returned body (query,
\* count, recommendations) a response records the handler's locals: topk, the
\* frame search returned (pool), strong, the frame after the gate (kept), win,
\* and the scored frame after the sort (ranked).
recommend(b, inp) ==
    LET q == strip(inp.query)
        topk == ClampTopk(inp.topk)
        strong == strong_terms_from_query(q)
        win == extract_duration_window(q)
        reply(pool, kept, ranked) ==
            LET top == head(ranked, topk)
                recs == [i \in 1..Len(top) |-> Rec(top[i])]
            IN  [op |-> "recommend", status |-> 200, searched |-> TRUE,
                 query |-> q, count |-> Len(recs), recommendations |-> recs,
                 topk |-> topk, pool |-> pool, strong |-> strong, kept |-> kept,
                 win |-> win, ranked |-> ranked]
    IN  IF b = None
        THEN {HTTPException(503, "Index not loaded. Build index and restart API.")}
        ELSE IF q = ""
        THEN {HTTPException(400, "Empty query.")}
        ELSE UNION {
                LET kept == KeywordGate(pool, strong)
                    df == [i \in 1..Len(kept) |-> Scored(kept[i], win)]
                IN  {reply(pool, kept, ranked) : ranked \in sort_values(df)} :
                pool \in search(b, q, topk * 4)}

health(b) ==
    [op |-> "health", status |-> "ok", index_loaded |-> b # None,
     model |-> MODEL_NAME]

(***************************************************************************)
(* The serving process                                                     *)
(***************************************************************************)

TopkSpread == 1

\* requested topk: around both ends of the clamp, and a negative
TopkInputs ==
    {0 - 3} \cup ((1 - TopkSpread)..(1 + TopkSpread))
            \cup ((10 - TopkSpread)..(10 + TopkSpread))

RecQueries ==
    {"python developer test, about 60 minutes", "sales manager",
     "java 1-2 hours", " leadership in 60 min ", "quick quiz", "", "  "}

SearchQueries == {"python developer test, about 60 minutes", "sales manager"}

NoReq == [op |-> "none"]

Init ==
    /\ phase = "boot"
    /\ bundle = None
    /\ req = NoReq
    /\ resp = NoResp
    /\ disk = EmptyDir /\ build = NoBuild /\ load = NoLoad /\ calls = NoCalls

\* module import: bundle = load_index(INDEX_DIR, MODEL_NAME), or None when
\* load_index raises (no index directory, an unreadable file, no model)
Startup ==
    /\ phase = "boot"
    /\ phase' = "idle"
    /\ \/ \E c \in Catalogs, m \in Models : bundle' = load_index(c, m)
       \/ bundle' = None
    /\ UNCHANGED <<req, resp, disk, build, load, calls>>

\* POST /recommend
Recommend ==
    /\ phase = "idle"
    /\ \E q \in RecQueries, k \in TopkInputs :
          /\ req' = [op |-> "recommend", query |-> q, topk |-> k]
          /\ resp' \in recommend(bundle, req')
    /\ phase' = "done"
    /\ UNCHANGED <<bundle, disk, build, load, calls>>

\* a direct call of search on the loaded bundle (the dashboard, the scripts)
Search ==
    /\ phase = "idle"
    /\ bundle # None
    /\ \E q \in SearchQueries, k \in 1..(MaxCatalog + 1) :
          /\ req' = [op |-> "search", query |-> q, topk |-> k]
          /\ \E out \in search(bundle, q, k) :
                resp' = [op |-> "search", out |-> out]
    /\ phase' = "done"
    /\ UNCHANGED <<bundle, disk, build, load, calls>>

\* GET /health
Health ==
    /\ phase = "idle"
    /\ req' = [op |-> "health"]
    /\ resp' = health(bundle)
    /\ phase' = "done"
    /\ UNCHANGED <<bundle, disk, build, load, calls>>

\* the response is sent; the process waits for the next request
Return ==
    /\ phase = "done"
    /\ phase' = "idle"
    /\ req' = NoReq
    /\ resp' = NoResp
    /\ UNCHANGED <<bundle, disk, build, load, calls>>

Next == Startup \/ Recommend \/ Search \/ Health \/ Return

Spec == Init /\ [][Next]_vars

(***************************************************************************)
(* The duration scoring step of recommend on one candidate row             *)
(***************************************************************************)

MaxDurationStep == 16

\* durations from 0 to 120 minutes in steps of 7.5, and the values that are
\* no number
FitDurations ==
    {Float(15 * k) : k \in 0..MaxDurationStep}
        \cup {NaN, Str("n/a"), Str(""), Str("60")}

FitQueries ==
    {"about 60 min", "1-2 hours", "0-3 hours", "5 min", "45-60 minutes",
     "15 - 15 min", "no time mentioned here"}

InitFit ==
    /\ phase = "input"
    /\ bundle = None
    /\ req \in [query : FitQueries, duration_min : FitDurations]
    /\ resp = NoResp
    /\ disk = EmptyDir /\ build = NoBuild /\ load = NoLoad /\ calls = NoCalls

\* lines 116-132 and 136 of recommend for a frame of one row
Fit ==
    /\ phase = "input"
    /\ phase' = "output"
    /\ LET win == extract_duration_window(req.query)
           row == WithSimilarity([RecA EXCEPT !.duration_min = req.duration_min], 90)
       IN  resp' = [op |-> "fit", win |-> win, den |-> ScoreDen(win),
                    scored |-> Scored(row, win)]
    /\ UNCHANGED <<bundle, req, disk, build, load, calls>>

NextFit == Fit

SpecFit == InitFit /\ [][NextFit]_vars

(***************************************************************************)
(* C1: what search returns                                                 *)
(***************************************************************************)

\* C1: search(bundle, query, top_n) returns min(top_n, number of catalog
\* records) rows, ordered by descending similarity, each a distinct catalog
\* record joined with its own similarity: no filler and no repeated row.
C1_SearchReturnsMinRows ==
    resp.op = "search" =>
        LET out == resp.out
        IN  /\ Len(out) = min(req.topk, Len(bundle.meta))
            /\ \A i, j \in 1..Len(out) :
                  /\ i < j => out[i].similarity >= out[j].similarity
                  /\ i # j => out[i].assessment_id # out[j].assessment_id
            /\ \A i \in 1..Len(out) : \E k \in 1..Len(bundle.meta) :
                  /\ out[i].url = bundle.meta[k].url
                  /\ out[i].title = bundle.meta[k].title
                  /\ out[i].similarity =
                        InnerProduct(bundle.model, req.query, bundle.index[k])

(***************************************************************************)
(* C2: the keyword gate                                                    *)
(***************************************************************************)

Served == resp.op = "recommend" /\ resp.status = 200

\* a keyword occurs in the lower-cased title, description, tags or category
HoldsKeyword(row, keywords) ==
    LET text == lower(row.title) \o " " \o lower(row.description) \o " "
                   \o lower(row.tags) \o " " \o lower(row.category)
    IN  \E n \in 1..Len(keywords) : \E i \in 1..Len(text) :
            /\ i + Len(keywords[n]) - 1 <= Len(text)
            /\ SubSeq(text, i, i + Len(keywords[n]) - 1) = keywords[n]

\* C2: with a non-empty keyword list the gate keeps exactly the candidates
\* whose lower-cased title, description, tags and category hold one of the
\* keywords as a substring; with an empty list it keeps every candidate.
C2_KeywordGate ==
    Served =>
        LET keeps(row) == HoldsKeyword(row, resp.strong)
        IN  IF resp.strong = <<>>
            THEN resp.kept = resp.pool
            ELSE resp.kept = SelectSeq(resp.pool, keeps)

\* the gate dropped some candidates and kept others
C2_Witness ==
    /\ Served
    /\ resp.strong # <<>>
    /\ resp.kept # <<>>
    /\ Len(resp.kept) < Len(resp.pool)

(***************************************************************************)
(* C5: the duration score                                                  *)
(***************************************************************************)

IsNumber(d) ==
    d.kind = "float" \/ (d.kind = "str" /\ d.text \in {"60"})
\* a numeric duration in half minutes
HalfMinutes(d) == IF d.kind = "float" THEN d.half ELSE 120

\* C5: for a window (lo, hi) and a known duration d the score is
\* max(0, 1 - |d - (lo+hi)/2| / max(15, (hi-lo)/2)), within [0, 1]; a missing
\* or non-numeric duration scores 0; without a window everything scores 0.
\* For (45, 75): 60 scores 1, 52.5 scores 0.5, 75 and 90 score 0.
C5_DurationFit ==
    resp.op = "fit" =>
        LET score == resp.scored.dur_score
            d == req.duration_min
            win == resp.win
        IN  /\ 0 <= score /\ score <= resp.den
            /\ win = NoWindow => score = 0
            /\ ~IsNumber(d) => score = 0
            /\ (win # NoWindow /\ IsNumber(d)) =>
                  LET lo == win[1]
                      hi == win[2]
                      \* twice |d - center| and twice the tolerance
                      dist == IF HalfMinutes(d) >= lo + hi
                              THEN HalfMinutes(d) - (lo + hi)
                              ELSE (lo + hi) - HalfMinutes(d)
                      tol == IF hi - lo > 30 THEN hi - lo ELSE 30
                  IN  IF dist >= tol THEN score = 0
                      ELSE score * tol = (tol - dist) * resp.den
            /\ win = <<45, 75>> =>
                  /\ d = Float(120) => score = resp.den
                  /\ d = Float(105) => 2 * score = resp.den
                  /\ d = Float(150) => score = 0
                  /\ d = Float(180) => score = 0

\* 52.5 minutes against the window (45, 75) scores one half
C5_Witness ==
    /\ resp.op = "fit"
    /\ resp.win = <<45, 75>>
    /\ req.duration_min = Float(105)
    /\ 2 * resp.scored.dur_score = resp.den

(***************************************************************************)
(* C6, C7: the order and the length of the recommendations                 *)
(***************************************************************************)

\* 0.85 * similarity + 0.15 * duration_fit of a row for the window win, times
\* 10000 * tol, tol being twice the tolerance (1 without a window)
ClaimedFinal(row, win) ==
    LET d == row.duration_min
        tol == IF win = NoWindow THEN 1
               ELSE IF win[2] - win[1] > 30 THEN win[2] - win[1] ELSE 30
        dist == IF win = NoWindow \/ ~IsNumber(d) THEN tol
                ELSE IF HalfMinutes(d) >= win[1] + win[2]
                THEN HalfMinutes(d) - (win[1] + win[2])
                ELSE (win[1] + win[2]) - HalfMinutes(d)
        fit == IF dist >= tol THEN 0 ELSE tol - dist
    IN  85 * row.similarity * tol + 15 * 100 * fit

\* the rows of frame that are the record of row with the similarity of row
Copies(frame, row) ==
    Cardinality({i \in 1..Len(frame) :
        frame[i].url = row.assessment_url /\ frame[i].similarity = row.similarity})

AsRec(row) ==
    [assessment_url |-> row.url, similarity |-> row.similarity]

\* C6: the recommendations are in non-increasing order of final_score =
\* 0.85 * similarity + 0.15 * duration_fit, and no surviving candidate that
\* was left out scores strictly higher than a returned one.
C6_OrderedByFinalScore ==
    Served =>
        LET recs == resp.recommendations
            final(x) == ClaimedFinal(x, resp.win)
        IN  /\ \A i, j \in 1..Len(recs) : i < j => final(recs[i]) >= final(recs[j])
            /\ \A k \in 1..Len(resp.kept) : \A i \in 1..Len(recs) :
                  final(resp.kept[k]) > final(recs[i]) =>
                      Cardinality({j \in 1..Len(recs) :
                          /\ recs[j].assessment_url = resp.kept[k].url
                          /\ recs[j].similarity = resp.kept[k].similarity})
                      = Copies(resp.kept, AsRec(resp.kept[k]))

\* the fusion put a candidate of lower similarity first, and left some out
C6_Witness ==
    /\ Served
    /\ resp.count >= 2
    /\ Len(resp.kept) > resp.count
    /\ resp.recommendations[1].similarity < resp.recommendations[2].similarity

NotBlank(q) == \E i \in 1..Len(q) : ~IsSpace(Ch(q, i))

\* C7: recommend neither pads nor fails on a short candidate list: the number
\* of recommendations, and the reported count, is min(effective top_k, number
\* of candidates that survived the keyword gate), 0 when none survived, and
\* every recommendation is a surviving candidate.
C7_NeverPads ==
    (resp.op = "recommend" /\ bundle # None /\ NotBlank(req.query)) =>
        /\ resp.status = 200
        /\ resp.count = Len(resp.recommendations)
        /\ resp.count = IF Len(resp.kept) < resp.topk THEN Len(resp.kept)
                        ELSE resp.topk
        /\ \A i \in 1..resp.count :
              Cardinality({j \in 1..resp.count :
                  /\ resp.recommendations[j].assessment_url
                        = resp.recommendations[i].assessment_url
                  /\ resp.recommendations[j].similarity
                        = resp.recommendations[i].similarity})
              <= Copies(resp.kept, resp.recommendations[i])

\* the gate dropped every candidate and the response is empty
C7_Witness ==
    /\ Served
    /\ resp.pool # <<>>
    /\ resp.kept = <<>>
    /\ resp.count = 0
    /\ resp.recommendations = <<>>

(***************************************************************************)
(* C8: the end-to-end scenario                                             *)
(***************************************************************************)

Scenario ==
    /\ resp.op = "recommend"
    /\ req.query = "python developer test, about 60 minutes"
    /\ req.topk = 2
    /\ bundle # None
    /\ Len(bundle.meta) = 3
    /\ {bundle.meta[i] : i \in 1..3} = {RecA, RecB, RecC}
    /\ \A i \in 1..3 :
          InnerProduct(bundle.model, strip(req.query), bundle.index[i])
              = [A |-> 90, B |-> 95, C |-> 70][bundle.meta[i].assessment_id]

\* C8: with the catalog {A, B, C} in any row order (A: 60 minutes, 'python',
\* similarity 0.9; B: 20 minutes, no keyword, 0.95; C: 58 minutes, 'python',
\* 0.7), the query 'python developer test, about 60 minutes' with top_k = 2
\* returns [A, C]: the gate drops B, the window is (45, 75), and A's final
\* score, 0.915, exceeds C's.
C8_EndToEnd ==
    Scenario =>
        /\ resp.status = 200
        /\ resp.count = 2
        /\ [i \in 1..2 |-> resp.recommendations[i].assessment_name]
              = <<RecA.title, RecC.title>>
        /\ [i \in 1..2 |-> resp.recommendations[i].similarity] = <<90, 70>>
        /\ \A k \in 1..Len(resp.kept) : resp.kept[k].url # RecB.url
        /\ \E k \in 1..Len(resp.pool) : resp.pool[k].url = RecB.url
        /\ resp.win = <<45, 75>>
        \* final scores are held times 10000 * 30
        /\ resp.ranked[1].final * 1000 = 915 * 300000
        /\ resp.ranked[1].final > resp.ranked[2].final

\* the scenario, served from the catalog in the row order C, B, A
C8_Witness ==
    /\ Scenario
    /\ [i \in 1..3 |-> bundle.meta[i].assessment_id] = <<"C", "B", "A">>
    /\ resp.status = 200
    /\ [i \in 1..resp.count |-> resp.recommendations[i].assessment_url]
          = <<"/a", "/c">>

(***************************************************************************)
(* C9, C10: the request checks                                             *)
(***************************************************************************)

\* C9: the effective top_k is the requested topk clamped to [1, 10] (below 1,
\* 0 and negatives included, gives 1; above 10 gives 10), and the pool asked
\* of search is 4 times the effective value.
C9_TopkClamped ==
    Served =>
        LET clamped == IF req.topk < 1 THEN 1
                       ELSE IF req.topk > 10 THEN 10 ELSE req.topk
        IN  /\ resp.topk = clamped
            /\ Len(resp.pool) = 4 * clamped

C10_Checks ==
    /\ resp.op = "recommend" =>
          /\ bundle = None =>
                /\ resp.status = 503
                /\ ~resp.searched
                /\ "recommendations" \notin DOMAIN resp
          /\ (bundle # None /\ ~NotBlank(req.query)) =>
                /\ resp.status = 400
                /\ ~resp.searched
                /\ "recommendations" \notin DOMAIN resp
          /\ resp.searched => (bundle # None /\ NotBlank(req.query))
    /\ resp.op = "health" => (resp.index_loaded <=> bundle # None)

\* C10: recommend calls search only with a loaded bundle and a query that is
\* not blank: without a bundle the answer is 503, for an empty or
\* whitespace-only query against a loaded bundle it is 400, in both cases
\* without a search and without recommendations; a load that failed at startup
\* stays failed (503 for every later request, /health says index_loaded false).
C10_GuardsBeforeSearch ==
    /\ [](C10_Checks)
    /\ [][(phase # "boot" /\ bundle = None) => bundle' = None]_vars

\* a request answered 503 after the load failed
C10_Witness ==
    /\ resp.op = "recommend"
    /\ bundle = None
    /\ NotBlank(req.query)
    /\ resp.status = 503

(***************************************************************************)
(* indexer.py and load_index, file by file                                 *)
(*                                                                         *)
(* indexer.main writes the three files of the bundle one after another     *)
(* into the index directory itself; load_index reads them one after        *)
(* another. The two run as separate processes, so their steps interleave,  *)
(* and any step that touches the model or the disk may raise.              *)
(***************************************************************************)

MaxBuilds == 2

\* the catalogs handed to the indexer, the empty one among them
BuildCatalogs == {<<>>, <<RecA>>, <<RecB, RecA>>}

\* X.shape[1]: the dimension of the vectors a model computes
Dimension(model_name) == [e1 |-> 384, e2 |-> 768, e3 |-> 384][model_name]

\* what the run b of the indexer writes
IndexFile(b) ==
    [run |-> b.run, by |-> b.model_name, d |-> Dimension(b.model_name),
     rows |-> [i \in 1..Len(b.catalog) |-> b.catalog[i].assessment_id]]
VectorsFile(b) ==
    [run |-> b.run, by |-> b.model_name, d |-> Dimension(b.model_name),
     rows |-> [i \in 1..Len(b.catalog) |-> b.catalog[i].assessment_id]]
MetaFile(b) == [run |-> b.run, by |-> "", d |-> 0, rows |-> b.catalog]

InitBuild ==
    /\ phase = "boot"
    /\ bundle = None
    /\ req = NoReq
    /\ resp = NoResp
    /\ disk = EmptyDir /\ build = NoBuild /\ load = NoLoad /\ calls = NoCalls

\* python -m src.indexer --catalog ... --outdir index --model ...: main is
\* entered and the output directory made
RunIndexer ==
    /\ build.pc \in {"idle", "done", "failed"}
    /\ build.run < MaxBuilds
    /\ \E c \in BuildCatalogs, m \in Models :
          build' = [pc |-> "read_csv", run |-> build.run + 1, catalog |-> c,
                    model_name |-> m]
    /\ UNCHANGED <<phase, bundle, req, resp, disk, load, calls>>

\* pd.read_csv; an empty catalog ends the run with SystemExit
ReadCsv ==
    /\ build.pc = "read_csv"
    /\ build' = [build EXCEPT !.pc = IF build.catalog = <<>> THEN "failed"
                                     ELSE "encode"]
    /\ UNCHANGED <<phase, bundle, req, resp, disk, load, calls>>

\* SentenceTransformer(model_name), model.encode, IndexFlatIP(d), index.add:
\* all in memory; loading the model or encoding may raise
Encode ==
    /\ build.pc = "encode"
    /\ \E pc \in {"write_index", "failed"} : build' = [build EXCEPT !.pc = pc]
    /\ UNCHANGED <<phase, bundle, req, resp, disk, load, calls>>

\* faiss.write_index(index, out / "faiss.index"), or an OSError that leaves
\* the file as it was
WriteIndex ==
    /\ build.pc = "write_index"
    /\ \/ /\ disk' = [disk EXCEPT !["faiss.index"] = IndexFile(build)]
          /\ build' = [build EXCEPT !.pc = "save_vectors"]
       \/ /\ build' = [build EXCEPT !.pc = "failed"]
          /\ UNCHANGED disk
    /\ UNCHANGED <<phase, bundle, req, resp, load, calls>>

\* np.save(out / "vectors.npy", X), or an OSError
SaveVectors ==
    /\ build.pc = "save_vectors"
    /\ \/ /\ disk' = [disk EXCEPT !["vectors.npy"] = VectorsFile(build)]
          /\ build' = [build EXCEPT !.pc = "to_parquet"]
       \/ /\ build' = [build EXCEPT !.pc = "failed"]
          /\ UNCHANGED disk
    /\ UNCHANGED <<phase, bundle, req, resp, load, calls>>

\* df[SAFE_COLS].to_parquet(out / "meta.parquet"), or an OSError
ToParquet ==
    /\ build.pc = "to_parquet"
    /\ \/ /\ disk' = [disk EXCEPT !["meta.parquet"] = MetaFile(build)]
          /\ build' = [build EXCEPT !.pc = "done"]
       \/ /\ build' = [build EXCEPT !.pc = "failed"]
          /\ UNCHANGED disk
    /\ UNCHANGED <<phase, bundle, req, resp, load, calls>>

\* load_index(indexdir, model_name) is called
LoadIndex ==
    /\ load.pc = "idle"
    /\ \E m \in Models : load' = [load EXCEPT !.pc = "read_index", !.model_name = m]
    /\ UNCHANGED <<phase, bundle, req, resp, disk, build, calls>>

\* faiss.read_index; a missing file raises and the caller is left without a
\* bundle
ReadIndex ==
    /\ load.pc = "read_index"
    /\ load' = IF disk["faiss.index"] = Absent
               THEN [load EXCEPT !.pc = "raised"]
               ELSE [load EXCEPT !.pc = "np_load", !.index = disk["faiss.index"]]
    /\ UNCHANGED <<phase, bundle, req, resp, disk, build, calls>>

\* np.load of vectors.npy
NpLoad ==
    /\ load.pc = "np_load"
    /\ load' = IF disk["vectors.npy"] = Absent
               THEN [load EXCEPT !.pc = "raised"]
               ELSE [load EXCEPT !.pc = "read_parquet",
                                 !.vectors = disk["vectors.npy"]]
    /\ UNCHANGED <<phase, bundle, req, resp, disk, build, calls>>

\* pd.read_parquet of meta.parquet
ReadParquet ==
    /\ load.pc = "read_parquet"
    /\ load' = IF disk["meta.parquet"] = Absent
               THEN [load EXCEPT !.pc = "raised"]
               ELSE [load EXCEPT !.pc = "model", !.meta = disk["meta.parquet"]]
    /\ UNCHANGED <<phase, bundle, req, resp, disk, build, calls>>

\* SentenceTransformer(model_name) and the return of the IndexBundle; d is
\* the dimension the faiss index carries
LoadModel ==
    /\ load.pc = "model"
    /\ load' = [load EXCEPT !.pc = "returned"]
    /\ bundle' = [loaded |-> TRUE, index |-> load.index.rows,
                  vectors |-> load.vectors.rows, meta |-> load.meta.rows,
                  model |-> load.model_name, d |-> load.index.d]
    /\ UNCHANGED <<phase, req, resp, disk, build, calls>>

\* search on a bundle as load_index returned it: index.search asserts that
\* the query vector has the dimension of the index, and meta.iloc raises
\* IndexError for a label past the last row of meta
TrySearch(b, query, topk) ==
    IF Dimension(b.model) # b.d
    THEN {[op |-> "search", raised |-> "AssertionError", out |-> <<>>]}
    ELSE {IF \E k \in 1..topk : hits[k].val >= Len(b.meta)
          THEN [op |-> "search", raised |-> "IndexError", out |-> <<>>]
          ELSE [op |-> "search", raised |-> "",
                out |-> [k \in 1..topk |->
                            WithSimilarity(iloc(b.meta, hits[k].val), hits[k].key)]] :
          hits \in IndexSearch(b, query, topk)}

\* the first query put to the loaded bundle
FirstQuery ==
    /\ load.pc = "returned"
    /\ resp = NoResp
    /\ \E q \in {"sales manager"}, k \in 1..2 :
          /\ req' = [op |-> "search", query |-> q, topk |-> k]
          /\ resp' \in TrySearch(bundle, q, k)
    /\ UNCHANGED <<phase, bundle, disk, build, load, calls>>

NextBuild ==
    \/ RunIndexer \/ ReadCsv \/ Encode \/ WriteIndex \/ SaveVectors \/ ToParquet
    \/ LoadIndex \/ ReadIndex \/ NpLoad \/ ReadParquet \/ LoadModel \/ FirstQuery

SpecBuild == InitBuild /\ [][NextBuild]_vars

(***************************************************************************)
(* C11: the build is all-or-nothing                                        *)
(***************************************************************************)

\* the files the run in progress has written
WrittenByRun ==
    {f \in DOMAIN disk : disk[f].run = build.run /\ build.run > 0}

\* C11: a build that fails at any step (an empty catalog, an embedding
\* failure, a failure while writing a file) never leaves the directory with
\* some but not all of the three files written by that build, and an empty
\* catalog ends the build before any file is written.
C11_BuildAllOrNothing ==
    /\ build.pc = "failed" => WrittenByRun \in {{}, DOMAIN disk}
    /\ (build.run > 0 /\ build.catalog = <<>>) => WrittenByRun = {}

(***************************************************************************)
(* C12: a bundle served with another model than built it                   *)
(***************************************************************************)

\* C12: the bundle records the model that embedded it, and a search on a
\* bundle served with a different model never succeeds, whether or not the
\* two models have the same dimension: it fails at load or at the first
\* query.
C12_ModelMismatchFails ==
    (load.pc = "returned" /\ resp.op = "search" /\ resp.raised = "") =>
        load.index.by = bundle.model

(***************************************************************************)
(* C16: the bundle load_index returns                                      *)
(***************************************************************************)

\* C16: every bundle load_index returns holds index, vectors and meta of one
\* build, of the same cardinality and order, also when a rebuild into the
\* directory runs meanwhile or was given up part-way.
C16_LoadedBundleConsistent ==
    load.pc = "returned" =>
        /\ load.index.run = load.vectors.run
        /\ load.index.run = load.meta.run
        /\ Len(bundle.index) = Len(bundle.meta)
        /\ bundle.vectors = bundle.index
        /\ \A i \in 1..Len(bundle.index) :
              bundle.meta[i].assessment_id = bundle.index[i]

(***************************************************************************)
(* Requests served at once                                                 *)
(*                                                                         *)
(* The server runs the handlers of concurrent requests on worker threads   *)
(* that share the one module-level bundle. A call of search or recommend   *)
(* is a sequence of steps, each reading the bundle at most once; the steps *)
(* of different calls interleave freely.                                   *)
(***************************************************************************)

NumWorkers == 2
Workers == 1..NumWorkers

ConcCatalogs == {<<RecB, RecD, RecA>>}

ConcInputs ==
    [op : {"recommend"}, query : {"sales manager", " "},
     topk : {1}]
    \cup [op : {"search"}, query : {"sales manager"}, topk : {2}]

\* a worker with no request
Idle == [pc |-> "idle", inp |-> NoReq, q |-> "", n |-> 0, hits |-> <<>>,
         out |-> <<>>, resp |-> NoResp]

\* the directory after the complete run b of the indexer
BundleFiles(b) ==
    [f \in DOMAIN EmptyDir |->
        IF f = "faiss.index" THEN IndexFile(b)
        ELSE IF f = "vectors.npy" THEN VectorsFile(b) ELSE MetaFile(b)]

\* the server has loaded the bundle of a complete build
InitConc ==
    /\ phase = "idle"
    /\ req = NoReq
    /\ resp = NoResp
    /\ \E c \in ConcCatalogs, m \in Models :
          LET b == [pc |-> "done", run |-> 1, catalog |-> c, model_name |-> m]
          IN  /\ build = b
              /\ disk = BundleFiles(b)
              /\ load = [pc |-> "returned", model_name |-> m,
                         index |-> IndexFile(b), vectors |-> VectorsFile(b),
                         meta |-> MetaFile(b)]
              /\ bundle = load_index(c, m)
    /\ calls = [w \in Workers |-> Idle]

\* out["similarity"] = D writing through to the frame the rows were taken
\* from, as it would without .copy()
MetaAssignedInPlace(meta, hits) ==
    [i \in 1..Len(meta) |->
        IF \E k \in 1..Len(hits) : iloc(meta, hits[k].val) = meta[i]
        THEN WithSimilarity(meta[i],
                 hits[CHOOSE k \in 1..Len(hits) : iloc(meta, hits[k].val) = meta[i]].key)
        ELSE meta[i]]

\* bundle.meta after out["similarity"] = D: out is a copy, so the column is
\* added to out alone
MetaAfterAssign(meta, hits) == meta

\* recommend, lines 107-156, on the frame search returned
Reranked(pool, q, topk) ==
    LET strong == strong_terms_from_query(q)
        win == extract_duration_window(q)
        kept == KeywordGate(pool, strong)
        df == [i \in 1..Len(kept) |-> Scored(kept[i], win)]
    IN  {LET top == head(ranked, topk)
             recs == [i \in 1..Len(top) |-> Rec(top[i])]
         IN  [op |-> "recommend", status |-> 200, searched |-> TRUE,
              query |-> q, count |-> Len(recs), recommendations |-> recs,
              topk |-> topk, pool |-> pool, strong |-> strong, kept |-> kept,
              win |-> win, ranked |-> ranked] : ranked \in sort_values(df)}

\* a request reaches worker w: recommend runs its checks (lines 95-102),
\* search is entered with its arguments
Call(w) ==
    /\ calls[w].pc = "idle"
    /\ \E inp \in ConcInputs :
          LET q == IF inp.op = "recommend" THEN strip(inp.query) ELSE inp.query
              refused == inp.op = "recommend" /\ (bundle = None \/ q = "")
          IN  calls' = [calls EXCEPT ![w] =
                  IF refused
                  THEN [Idle EXCEPT !.pc = "done", !.inp = inp, !.q = q,
                            !.resp = CHOOSE r \in recommend(bundle, inp) : TRUE]
                  ELSE [Idle EXCEPT !.pc = "index_search", !.inp = inp, !.q = q,
                            !.n = IF inp.op = "recommend"
                                  THEN ClampTopk(inp.topk) * 4 ELSE inp.topk]]
    /\ UNCHANGED <<phase, bundle, req, resp, disk, build, load>>

\* q = bundle.model.encode(...); D, I = bundle.index.search(q, topk)
EncodeAndSearch(w) ==
    /\ calls[w].pc = "index_search"
    /\ \E hits \in IndexSearch(bundle, calls[w].q, calls[w].n) :
          calls' = [calls EXCEPT ![w].pc = "iloc", ![w].hits = hits]
    /\ UNCHANGED <<phase, bundle, req, resp, disk, build, load>>

\* out = bundle.meta.iloc[I].copy()
IlocCopy(w) ==
    /\ calls[w].pc = "iloc"
    /\ calls' = [calls EXCEPT ![w].pc = "assign",
                    ![w].out = [k \in 1..calls[w].n |->
                                   iloc(bundle.meta, calls[w].hits[k].val)]]
    /\ UNCHANGED <<phase, bundle, req, resp, disk, build, load>>

\* out["similarity"] = D; return out.reset_index(drop=True)
AssignSimilarity(w) ==
    /\ calls[w].pc = "assign"
    /\ LET out == [k \in 1..calls[w].n |->
                      WithSimilarity(calls[w].out[k], calls[w].hits[k].key)]
       IN  calls' = [calls EXCEPT ![w] =
               IF calls[w].inp.op = "search"
               THEN [calls[w] EXCEPT !.pc = "done", !.out = out,
                                     !.resp = [op |-> "search", out |-> out]]
               ELSE [calls[w] EXCEPT !.pc = "rerank", !.out = out]]
    /\ bundle' = [bundle EXCEPT !.meta = MetaAfterAssign(bundle.meta, calls[w].hits)]
    /\ UNCHANGED <<phase, req, resp, disk, build, load>>

\* recommend from the keyword gate to the return
Rerank(w) ==
    /\ calls[w].pc = "rerank"
    /\ \E r \in Reranked(calls[w].out, calls[w].q, ClampTopk(calls[w].inp.topk)) :
          calls' = [calls EXCEPT ![w].pc = "done", ![w].resp = r]
    /\ UNCHANGED <<phase, bundle, req, resp, disk, build, load>>

\* the response is sent and the worker is free again
Respond(w) ==
    /\ calls[w].pc = "done"
    /\ calls' = [calls EXCEPT ![w] = Idle]
    /\ UNCHANGED <<phase, bundle, req, resp, disk, build, load>>

NextConc ==
    \E w \in Workers :
        \/ Call(w) \/ EncodeAndSearch(w) \/ IlocCopy(w) \/ AssignSimilarity(w)
        \/ Rerank(w) \/ Respond(w)

SpecConc == InitConc /\ [][NextConc]_vars

(***************************************************************************)
(* C13: search and recommend leave the bundle alone                        *)
(***************************************************************************)

\* the bundle as load_index returned it
Loaded == load_index(load.meta.rows, load.model_name)

\* what the call c may return when it runs with no other call beside it
Alone(c) ==
    IF c.inp.op = "recommend" THEN recommend(Loaded, c.inp)
    ELSE {[op |-> "search", out |-> out] :
             out \in search(Loaded, c.inp.query, c.inp.topk)}

\* C13: search and recommend only read the bundle. However the steps of
\* concurrent calls interleave, the index, vectors and meta of the bundle are
\* after every step what load_index returned, and every call returns a result
\* it could have returned running alone.
C13_ReadOnlyUnderConcurrency ==
    calls # NoCalls =>
        /\ bundle = Loaded
        /\ \A w \in DOMAIN calls :
              calls[w].pc = "done" => calls[w].resp \in Alone(calls[w])

\* a recommend call has been served while another call stood between its
\* reads of the bundle
C13_Witness ==
    /\ calls # NoCalls
    /\ \E v, w \in DOMAIN calls :
          /\ v # w
          /\ calls[v].pc = "done" /\ calls[v].inp.op = "recommend"
          /\ calls[v].resp.status = 200 /\ calls[v].resp.count > 0
          /\ calls[w].pc \in {"iloc", "assign"}

(***************************************************************************)
(* C15: ties of the final score                                            *)
(***************************************************************************)

\* the place of the first row of frame that is the record of rec with the
\* similarity of rec
FirstAt(frame, rec) ==
    CHOOSE k \in 1..Len(frame) :
        /\ frame[k].url = rec.assessment_url
        /\ frame[k].similarity = rec.similarity
        /\ \A j \in 1..(k - 1) : ~(/\ frame[j].url = rec.assessment_url
                                   /\ frame[j].similarity = rec.similarity)

\* C15: the final sort is stable: two surviving candidates of equal
\* final_score stand in the recommendations in the relative order in which
\* search returned them.
C15_StableOnTies ==
    Served =>
        LET recs == resp.recommendations
            final(x) == ClaimedFinal(x, resp.win)
        IN  \A i, j \in 1..Len(recs) :
                (/\ i < j
                 /\ final(recs[i]) = final(recs[j])
                 /\ recs[i].assessment_url # recs[j].assessment_url) =>
                    FirstAt(resp.kept, recs[i]) < FirstAt(resp.kept, recs[j])

(***************************************************************************)
(* C17: the recommendations are records of the catalog, once each          *)
(***************************************************************************)

\* C17: whatever the catalog size, the query and top_k, no catalog record
\* stands twice in the recommendations, the count does not exceed the number
\* of catalog records, and every returned similarity is the inner product of
\* the query and the returned record.
C17_EachRecordOnce ==
    Served =>
        LET recs == resp.recommendations
        IN  /\ \A i, j \in 1..Len(recs) :
                  i # j => recs[i].assessment_url # recs[j].assessment_url
            /\ resp.count <= Len(bundle.meta)
            /\ \A i \in 1..Len(recs) : \E k \in 1..Len(bundle.meta) :
                  /\ recs[i].assessment_url = bundle.meta[k].url
                  /\ recs[i].similarity =
                        InnerProduct(bundle.model, resp.query, bundle.index[k])

====
